---- MODULE Spec2Model ----
(***************************************************************************)
(* A model of the multi-armed-bandit selection engine of assets.py:        *)
(* Asset (one tracker's counters), AssetSet (the schedule of admitted      *)
(* trackers and the two Softmax choices) and Selector (make_choice).       *)
(*                                                                         *)
(* Probabilities (likelihood, rho, the values of random()) are integers in *)
(* thousandths: 1000 stands for 1.0, and random() returns a value of       *)
(* [0, 1), so a draw is one of 0 .. 999.  A conversion rate is the pair    *)
(* <<redemptions, offers>> standing for the quotient.                      *)
(***************************************************************************)
EXTENDS Integers, Sequences, FiniteSets, TLC

VARIABLES
    asset_map,      \* AssetSet.asset_map: the schedule, a set of entries
    likelihood,     \* Asset.likelihood, per tracker, in thousandths
    rho,            \* Selector.rho: a probability in thousandths or a sentinel
    start,          \* Selector.start
    offers,         \* Asset.offers, per tracker
    redemptions,    \* Asset.redemptions, per tracker
    conversion,     \* Asset._conversion, per tracker, as <<redemptions, offers>>
    counts,         \* AssetSet._counts
    total,          \* AssetSet.total
    rho_selected,   \* Selector.rho_selected
    best_selected,  \* Selector.best_selected
    offered,        \* history: the number of Asset.offer calls made per tracker
    calls,          \* history: the number of make_choice calls made
    lastOp,         \* history: the operation that ran last
    ret,            \* history: the set the last active-set read returned
    drawn,          \* history: the set the last Softmax choice drew from
    chosen,         \* history: the tracker the last choice selected
    rule,           \* history: the branch of make_choice that recorded the trial
    err             \* history: the exception the last operation raised

vars == <<asset_map, likelihood, rho, start, offers, redemptions, conversion,
          counts, total, rho_selected, best_selected, offered, calls, lastOp,
          ret, drawn, chosen, rule, err>>

config == <<asset_map, likelihood, rho, start>>

----------------------------------------------------------------------------
(* Bounds of the model. *)

\* make_choice calls in one run of Spec
MaxCalls == 4
\* the largest value of total that the direct pool calls of SpecPool reach
MaxTotal == 2
\* the most Asset.offer calls made in one run of SpecPool
MaxOffers == 2
\* the largest value of total in SpecSched, past every key of get_set
MaxIncrements == 802

----------------------------------------------------------------------------
(* Selector's mode constants. *)

USE_SOFT_MAX_2 == -40
USE_SOFT_MAX == -30
USE_RHO_FUNC == -20
ONLY_BEST == -10
RANDOM == -1

----------------------------------------------------------------------------
(* The trackers and the schedules. *)

Names == {"A", "B", "C", "D", "E", "F"}

NoAsset == "-"

Range(f) == {f[i] : i \in DOMAIN f}

\* A schedule entry: a scalar key mn, or a tuple key (mn, mx), and its list.
Scalar(mn, lst) == [isTuple |-> FALSE, mn |-> mn, mx |-> mn, assets |-> lst]
Tuple(mn, mx, lst) == [isTuple |-> TRUE, mn |-> mn, mx |-> mx, assets |-> lst]

\* tests.py get_set: the schedule and the likelihoods of its trackers.
GetSetMap ==
    { Scalar(0, <<"A", "B", "C">>),
      Scalar(500, <<"D">>),
      Tuple(600, 800, <<"E">>),
      Scalar(700, <<"F">>) }

GetSetLikelihood ==
    [a \in Names |->
        CASE a = "A" -> 30 [] a = "B" -> 45 [] a = "C" -> 67
          [] a = "D" -> 150 [] a = "E" -> 20 [] a = "F" -> 240]

\* A schedule of the same shape with keys the Selector runs reach: a group at
\* key 0, a later scalar key, an interval key, and a tracker (B) listed under
\* two admitting keys.  A never redeems (0.0) and B always does (1.0).
SmallMap ==
    { Scalar(0, <<"A", "B">>),
      Scalar(2, <<"D">>),
      Tuple(1, 3, <<"E", "B">>) }

SmallLikelihood ==
    [a \in Names |->
        CASE a = "A" -> 0 [] a = "B" -> 1000 [] a = "D" -> 500
          [] a = "E" -> 500 [] OTHER -> 500]

\* A schedule of scalar keys only, one of them reached in a Selector run.
ScalarMap ==
    { Scalar(0, <<"A", "B">>),
      Scalar(2, <<"D">>) }

\* The schedule {0: [X], 500: [Y]}, with A for X and D for Y.
TwoKeyMap ==
    { Scalar(0, <<"A">>),
      Scalar(500, <<"D">>) }

Pools ==
    { [amap |-> GetSetMap, likelihood |-> GetSetLikelihood],
      [amap |-> SmallMap, likelihood |-> SmallLikelihood],
      [amap |-> ScalarMap, likelihood |-> SmallLikelihood] }

\* The values random() returns that the comparisons of the code tell apart.
Draws == {0, 500, 999}

\* Selector(rho, start): the configurations.
Rhos == {0, 500, 1000, RANDOM, ONLY_BEST, USE_RHO_FUNC, USE_SOFT_MAX, USE_SOFT_MAX_2}
Starts == {0, 1, 2}

----------------------------------------------------------------------------
(* The program state the operations read and write, as one record. *)

Cur ==
    [offers |-> offers, redemptions |-> redemptions, conversion |-> conversion,
     counts |-> counts, total |-> total, rho_selected |-> rho_selected,
     best_selected |-> best_selected, offered |-> offered]

Commit(s) ==
    /\ offers' = s.offers
    /\ redemptions' = s.redemptions
    /\ conversion' = s.conversion
    /\ counts' = s.counts
    /\ total' = s.total
    /\ rho_selected' = s.rho_selected
    /\ best_selected' = s.best_selected
    /\ offered' = s.offered

----------------------------------------------------------------------------
(* Asset *)

\* Asset.conversion: 0 when there are no offers, else the cached quotient.
Conversion(s, a) == IF s.offers[a] = 0 THEN <<0, 1>> ELSE s.conversion[a]

\* Asset.offer with the count of offers raised only on a redemption.
offer_inside_if(s, a, d) ==
    LET hit == d <= likelihood[a]
        red == IF hit THEN s.redemptions[a] + 1 ELSE s.redemptions[a]
        off == IF hit THEN s.offers[a] + 1 ELSE s.offers[a]
    IN  [s EXCEPT !.redemptions[a] = red, !.offers[a] = off,
                  !.conversion[a] = <<red, IF off = 0 THEN 1 ELSE off>>,
                  !.offered[a] = @ + 1]

\* Asset.offer with d the value random() returns.
offer(s, a, d) ==
    LET red == IF d <= likelihood[a] THEN s.redemptions[a] + 1 ELSE s.redemptions[a]
        off == s.offers[a] + 1
    IN  [s EXCEPT !.redemptions[a] = red, !.offers[a] = off,
                  !.conversion[a] = <<red, off>>, !.offered[a] = @ + 1]

----------------------------------------------------------------------------
(* AssetSet *)

\* The test of a key with a scalar key admitted only past it.
Admits_scalar_strict(e, t) ==
    IF e.isTuple THEN e.mn <= t /\ t < e.mx ELSE t > e.mn

\* The test of a key with the upper end of a tuple key included.
Admits_tuple_closed(e, t) ==
    IF e.isTuple THEN e.mn <= t /\ t <= e.mx ELSE t >= e.mn

\* The test of one key of asset_map against total.
Admits(e, t) ==
    IF e.isTuple THEN e.mn <= t /\ t < e.mx ELSE t >= e.mn

\* The set AssetSet.assets builds at total = t.
AssetsAt(t) == UNION {Range(e.assets) : e \in {x \in asset_map : Admits(x, t)}}

RECURSIVE SumOffers(_, _)
SumOffers(S, off) ==
    IF S = {} THEN 0
    ELSE LET a == CHOOSE x \in S : TRUE IN off[a] + SumOffers(S \ {a}, off)

\* AssetSet.assets with _counts summed over the admitted lists, so that a
\* tracker on two admitted lists counts twice.
RECURSIVE SumLists(_, _)
SumLists(E, off) ==
    IF E = {} THEN 0
    ELSE LET e == CHOOSE x \in E : TRUE
             RECURSIVE SumSeq(_)
             SumSeq(q) == IF Len(q) = 0 THEN 0 ELSE off[q[1]] + SumSeq(Tail(q))
         IN  SumSeq(e.assets) + SumLists(E \ {e}, off)

assets_counting_lists(s) ==
    LET a == AssetsAt(s.total)
    IN  [ret |-> a,
         s |-> [s EXCEPT !.counts =
                    SumLists({x \in asset_map : Admits(x, s.total)}, s.offers)]]

\* The property AssetSet.assets: the set, and _counts set to its offers.
assets(s) ==
    LET a == AssetsAt(s.total)
    IN  [ret |-> a, s |-> [s EXCEPT !.counts = SumOffers(a, s.offers)]]

\* The method AssetSet.assets_with_increment, when it is called.
assets_with_increment(s) ==
    LET a == assets(s)
    IN  [ret |-> a.ret, s |-> [a.s EXCEPT !.total = @ + 1]]

\* The members of S in the iteration order ord.
InOrder(S, ord) == SelectSeq(ord, LAMBDA x : x \in S)

\* The iteration orders of a set of trackers.  A set iterates in the order of
\* its members' hashes, which are their addresses: any arrangement.  The model
\* takes the rotations of the arrangement by name and of its reverse, in
\* which every member comes first, every member comes last, and every two
\* members come in both orders.
NameOrder == <<"A", "B", "C", "D", "E", "F">>

Rotated(seq, i) == SubSeq(seq, i, Len(seq)) \o SubSeq(seq, 1, i - 1)

Reversed(seq) == [i \in 1 .. Len(seq) |-> seq[Len(seq) + 1 - i]]

Orders(S) ==
    LET fwd == InOrder(S, NameOrder)
    IN  IF S = {} THEN {<<>>}
        ELSE {Rotated(fwd, i) : i \in 1 .. Len(fwd)}
                \cup {Rotated(Reversed(fwd), i) : i \in 1 .. Len(fwd)}

\* AssetSet._assets_values raising total whatever increment is.
_assets_values_always_increment(s, increment, ord) ==
    LET a == assets(s)
    IN  [cur_assets |-> InOrder(a.ret, ord), s |-> [a.s EXCEPT !.total = @ + 1]]

\* AssetSet._assets_values: the trackers in iteration order ord, total raised
\* by one after the read when increment is set.
_assets_values(s, increment, ord) ==
    LET a == assets(s)
    IN  [cur_assets |-> InOrder(a.ret, ord),
         s |-> IF increment THEN [a.s EXCEPT !.total = @ + 1] ELSE a.s]

\* AssetSet._choose_assets_with_temp.  Every probability is positive and they
\* sum to 1 up to rounding, so the loop returns at the index k where the
\* cumulative mass first exceeds rand, for any k the draw decides; k past the
\* end stands for the loop falling through to cur_assets[-1].
_choose_assets_with_temp(cur_assets, k) ==
    IF Len(cur_assets) = 0
    THEN [exc |-> "IndexError", ret |-> NoAsset]
    ELSE [exc |-> "none",
          ret |-> cur_assets[IF k > Len(cur_assets) THEN Len(cur_assets) ELSE k]]

\* AssetSet.soft_max_choice calling offer on the tracker it selects.
soft_max_choice_records(s, increment, ord, k) ==
    LET av == _assets_values(s, increment, ord)
        c == _choose_assets_with_temp(av.cur_assets, k)
    IN  [exc |-> c.exc, ret |-> c.ret,
         s |-> IF c.exc = "none" THEN offer(av.s, c.ret, 0) ELSE av.s,
         drawn |-> Range(av.cur_assets), read |-> Range(av.cur_assets)]

\* AssetSet.soft_max_choice: the temperature reads the cached counts.
soft_max_choice(s, increment, ord, k) ==
    LET av == _assets_values(s, increment, ord)
        c == _choose_assets_with_temp(av.cur_assets, k)
    IN  [exc |-> c.exc, ret |-> c.ret, s |-> av.s,
         drawn |-> Range(av.cur_assets), read |-> Range(av.cur_assets)]

\* AssetSet.soft_max_2_choice: soft_max_temp_min reads self.assets again, after
\* _assets_values has raised total, and takes min over that set.
soft_max_2_choice(s, increment, ord, k) ==
    LET av == _assets_values(s, increment, ord)
        again == assets(av.s)
        c == _choose_assets_with_temp(av.cur_assets, k)
    IN  IF again.ret = {}
        THEN [exc |-> "ValueError", ret |-> NoAsset, s |-> again.s,
              drawn |-> Range(av.cur_assets), read |-> again.ret]
        ELSE [exc |-> c.exc, ret |-> c.ret, s |-> again.s,
              drawn |-> Range(av.cur_assets), read |-> again.ret]

----------------------------------------------------------------------------
(* utils.confint95 and Asset.width, in units of 1/10000. *)

\* The integer square root, for values up to 1 (10000 * 10000).
Isqrt(n) == CHOOSE x \in 0 .. 10000 : x * x <= n /\ (x + 1) * (x + 1) > n

\* utils.standard_error: (0, 0) without offers, else phat and its error.
standard_error(r, o) ==
    IF o = 0 THEN <<0, 0>>
    ELSE <<(10000 * r) \div o, Isqrt((100000000 * r * (o - r)) \div (o * o * o))>>

\* utils.confint95: the upper bound, and the lower bound cut at 0.
confint95(r, o) ==
    LET e == standard_error(r, o)
        lo == e[1] - 2 * e[2]
    IN  <<e[1] + 2 * e[2], IF lo > 0 THEN lo ELSE 0>>

\* Asset.width
Width(s, a) ==
    LET c == confint95(s.redemptions[a], s.offers[a]) IN c[1] - c[2]

----------------------------------------------------------------------------
(* Selector *)

\* sorted(seq, key): a stable sort, before(x, y) holding when x's key is less
\* than y's (greater, with reverse=True).
RECURSIVE Sorted(_, _)
Sorted(seq, before) ==
    IF Len(seq) = 0 THEN <<>>
    ELSE LET done == Sorted(SubSeq(seq, 1, Len(seq) - 1), before)
             x == seq[Len(seq)]
             later == {j \in 1 .. Len(done) : <<x, done[j]>> \in before}
             at == IF later = {} THEN Len(done) + 1
                   ELSE CHOOSE j \in later : \A i \in later : j <= i
         IN  SubSeq(done, 1, at - 1) \o <<x>> \o SubSeq(done, at, Len(done))

ByOffers(s) == {p \in Names \X Names : s.offers[p[1]] < s.offers[p[2]]}

ByConversion(s) ==
    {p \in Names \X Names :
        Conversion(s, p[1])[1] * Conversion(s, p[2])[2]
            < Conversion(s, p[2])[1] * Conversion(s, p[1])[2]}

ByWidthReverse(s) == {p \in Names \X Names : Width(s, p[1]) > Width(s, p[2])}

\* What one make_choice call comes to: the state it leaves, the exception it
\* raised, the branch that recorded the trial and the tracker it went to,
\* the last set read and the set a Softmax choice drew from.
Outcome(s, exc, by, a, read, from) ==
    [s |-> s, exc |-> exc, rule |-> by, chosen |-> a, read |-> read, drawn |-> from]

\* The expression asset_set.assets_with_increment as make_choice writes it,
\* without a call.  assets_with_increment is defined with a plain def, so the
\* expression is the bound method: nothing runs, and the value is not iterable.
assets_with_increment_attr(s) ==
    [iterable |-> FALSE, ret |-> {}, s |-> s]

\* Selector.select_best
select_best(s, choices, d, read) ==
    LET s1 == [s EXCEPT !.best_selected = @ + 1]
        srt == Sorted(choices, ByConversion(s1))
    IN  IF Len(srt) = 0
        THEN Outcome(s1, "IndexError", "none", NoAsset, read, {})
        ELSE Outcome(offer(s1, srt[Len(srt)], d), "none", "best", srt[Len(srt)], read, {})

\* make_choice from line 152 on: choices is <<>> for None.
make_choice_rule(s, choices, assets_incremented, read, ord, k, u, d) ==
    IF rho = USE_SOFT_MAX
    THEN LET c == soft_max_choice(s, ~assets_incremented, ord, k)
         IN  IF c.exc # "none"
             THEN Outcome(c.s, c.exc, "none", NoAsset, c.read, c.drawn)
             ELSE Outcome(offer(c.s, c.ret, d), "none", "softmax", c.ret, c.read, c.drawn)
    ELSE IF rho = USE_SOFT_MAX_2
    THEN LET c == soft_max_2_choice(s, ~assets_incremented, ord, k)
         IN  IF c.exc # "none"
             THEN Outcome(c.s, c.exc, "none", NoAsset, c.read, c.drawn)
             ELSE Outcome(offer(c.s, c.ret, d), "none", "softmax2", c.ret, c.read, c.drawn)
    ELSE
    \* rhof is lambda x: self.rho, so rho_func returns self.rho as well.
    LET rhoval == rho
        got == IF Len(choices) = 0 THEN assets_with_increment_attr(s)
               ELSE [iterable |-> TRUE, ret |-> read, s |-> s]
    IN  IF ~got.iterable
        THEN Outcome(got.s, "TypeError", "none", NoAsset, read, {})
        ELSE
        LET ch == IF Len(choices) = 0
                  THEN Sorted(InOrder(got.ret, ord), ByOffers(got.s))
                  ELSE choices
            s1 == got.s
        IN  IF rho = RANDOM
            THEN IF Len(ch) = 0
                 THEN Outcome(s1, "IndexError", "none", NoAsset, got.ret, {})
                 ELSE LET a == ch[IF k > Len(ch) THEN Len(ch) ELSE k]
                      IN  Outcome(offer(s1, a, d), "none", "random", a, got.ret, {})
            ELSE IF rho = ONLY_BEST
            THEN select_best(s1, ch, d, got.ret)
            ELSE IF u <= rhoval
            THEN LET s2 == [s1 EXCEPT !.rho_selected = @ + 1]
                     srt == Sorted(ch, ByWidthReverse(s2))
                 IN  IF Len(srt) = 0
                     THEN Outcome(s2, "IndexError", "none", NoAsset, got.ret, {})
                     ELSE Outcome(offer(s2, srt[1], d), "none", "width", srt[1], got.ret, {})
            ELSE select_best(s1, ch, d, got.ret)

\* Selector.make_choice.  ord is the iteration order of the active set, k the
\* index a random choice settles on, u the value random() returns at line 179
\* and d the value it returns in Asset.offer.
make_choice(s, ord, k, u, d) ==
    IF start # 0
    THEN LET got == assets_with_increment_attr(s)
         IN  IF ~got.iterable
             THEN Outcome(got.s, "TypeError", "none", NoAsset, {}, {})
             ELSE LET choices == Sorted(InOrder(got.ret, ord), ByOffers(got.s))
                  IN  IF Len(choices) = 0
                      THEN Outcome(got.s, "IndexError", "none", NoAsset, got.ret, {})
                      ELSE IF got.s.offers[choices[1]] < start
                      THEN Outcome(offer(got.s, choices[1], d), "none", "start",
                                   choices[1], got.ret, {})
                      ELSE make_choice_rule(got.s, choices, TRUE, got.ret, ord, k, u, d)
    ELSE make_choice_rule(s, <<>>, FALSE, {}, ord, k, u, d)

----------------------------------------------------------------------------
(* The operations a driver runs. *)

\* The trackers of the schedule.
Trackers == UNION {Range(e.assets) : e \in asset_map}

\* s.make_choice(aset)
MakeChoice ==
    /\ calls < MaxCalls
    /\ \E ord \in Orders(AssetsAt(total)), k \in 1 .. Cardinality(AssetsAt(total)) + 1,
          u \in Draws, d \in Draws :
            \E r \in {make_choice(Cur, ord, k, u, d)} :
                /\ Commit(r.s)
                /\ err' = r.exc
                /\ rule' = r.rule
                /\ chosen' = r.chosen
                /\ ret' = r.read
                /\ drawn' = r.drawn
    /\ calls' = calls + 1
    /\ lastOp' = "make_choice"
    /\ UNCHANGED config

\* aset.assets
AssetsRead ==
    /\ \E r \in {assets(Cur)} : Commit(r.s) /\ ret' = r.ret
    /\ lastOp' = "assets"
    /\ err' = "none"
    /\ UNCHANGED <<config, calls, drawn, chosen, rule>>

\* aset.assets_with_increment()
AssetsWithIncrementCall(limit) ==
    /\ total < limit
    /\ \E r \in {assets_with_increment(Cur)} : Commit(r.s) /\ ret' = r.ret
    /\ lastOp' = "assets_with_increment"
    /\ err' = "none"
    /\ UNCHANGED <<config, calls, drawn, chosen, rule>>

\* aset.soft_max_choice(increment)
SoftMaxChoiceCall(increment) ==
    /\ increment => total < MaxTotal
    /\ \E ord \in Orders(AssetsAt(total)), k \in 1 .. Cardinality(AssetsAt(total)) + 1 :
            \E r \in {soft_max_choice(Cur, increment, ord, k)} :
                /\ Commit(r.s)
                /\ err' = r.exc
                /\ chosen' = r.ret
                /\ ret' = r.read
                /\ drawn' = r.drawn
    /\ lastOp' = IF increment THEN "soft_max_choice(True)" ELSE "soft_max_choice(False)"
    /\ UNCHANGED <<config, calls, rule>>

\* aset.soft_max_2_choice(increment)
SoftMax2ChoiceCall(increment) ==
    /\ increment => total < MaxTotal
    /\ \E ord \in Orders(AssetsAt(total)), k \in 1 .. Cardinality(AssetsAt(total)) + 1 :
            \E r \in {soft_max_2_choice(Cur, increment, ord, k)} :
                /\ Commit(r.s)
                /\ err' = r.exc
                /\ chosen' = r.ret
                /\ ret' = r.read
                /\ drawn' = r.drawn
    /\ lastOp' = IF increment THEN "soft_max_2_choice(True)" ELSE "soft_max_2_choice(False)"
    /\ UNCHANGED <<config, calls, rule>>

\* asset.offer()
OfferCall(a) ==
    /\ SumOffers(Names, offered) < MaxOffers
    /\ \E d \in Draws : \E s \in {offer(Cur, a, d)} : Commit(s)
    /\ lastOp' = "offer"
    /\ chosen' = a
    /\ err' = "none"
    /\ UNCHANGED <<config, calls, ret, drawn, rule>>

\* The state after AssetSet(amap), the Asset(name, likelihood) of its lists and
\* Selector(rho, start) are constructed.
InitWith(pools, rhos, starts) ==
    /\ \E p \in pools : asset_map = p.amap /\ likelihood = p.likelihood
    /\ rho \in rhos
    /\ start \in starts
    /\ offers = [a \in Names |-> 0]
    /\ redemptions = [a \in Names |-> 0]
    /\ conversion = [a \in Names |-> <<0, 1>>]
    /\ counts = 0
    /\ total = 0
    /\ rho_selected = 0
    /\ best_selected = 0
    /\ offered = [a \in Names |-> 0]
    /\ calls = 0
    /\ lastOp = "init"
    /\ ret = {}
    /\ drawn = {}
    /\ chosen = NoAsset
    /\ rule = "none"
    /\ err = "none"

\* A simulation as tests.py runs it: make_choice in a loop, aset.assets read
\* for the report.
Init == InitWith(Pools, Rhos, Starts)

Next == MakeChoice \/ AssetsRead

Spec == Init /\ [][Next]_vars

\* The pool and its trackers called directly.
InitPool ==
    InitWith({[amap |-> SmallMap, likelihood |-> SmallLikelihood]}, {0}, {0})

NextPool ==
    \/ AssetsRead
    \/ AssetsWithIncrementCall(MaxTotal)
    \/ \E increment \in BOOLEAN : SoftMaxChoiceCall(increment)
    \/ \E increment \in BOOLEAN : SoftMax2ChoiceCall(increment)
    \/ \E a \in Trackers : OfferCall(a)

SpecPool == InitPool /\ [][NextPool]_vars

\* The schedule alone: the active set read as total advances.
InitSched ==
    InitWith(Pools \cup {[amap |-> TwoKeyMap, likelihood |-> GetSetLikelihood]}, {0}, {0})

NextSched == AssetsRead \/ AssetsWithIncrementCall(MaxIncrements)

SpecSched == InitSched /\ [][NextSched]_vars

\* A driver that also calls the trackers and the pool itself between the
\* make_choice calls, with a start threshold set.
InitDriver ==
    InitWith({[amap |-> ScalarMap, likelihood |-> SmallLikelihood]},
             {500, ONLY_BEST, USE_SOFT_MAX}, {1, 2})

NextDriver ==
    \/ MakeChoice
    \/ AssetsWithIncrementCall(MaxTotal)
    \/ \E a \in Trackers : OfferCall(a)

SpecDriver == InitDriver /\ [][NextDriver]_vars

----------------------------------------------------------------------------
(* The claims. *)

\* The value of total that the last active-set read saw.
ReadAt == IF lastOp = "assets_with_increment" THEN total - 1 ELSE total

\* The trackers whose counters a step changes.
Touched == {a \in Names : offers'[a] # offers[a] \/ redemptions'[a] # redemptions[a]}

\* The rules of make_choice past the start threshold.
Strategic == {"softmax", "softmax2", "random", "best", "width"}

\* C1: every make_choice call records exactly one trial: one tracker's offers
\* grow by 1, no other tracker's counters change, and the sum of offers grows
\* by exactly 1.
C1_OneTrialPerCall ==
    [][calls' = calls + 1 =>
        /\ \E a \in Names :
            /\ offers'[a] = offers[a] + 1
            /\ Touched = {a}
        /\ SumOffers(Names, offers') = SumOffers(Names, offers) + 1]_vars

\* C2: after any sequence of N calls of Asset.offer on a tracker,
\* 0 <= redemptions <= offers = N; one call raises offers by exactly 1 and
\* redemptions by 0 or 1, and no step lowers or resets either counter.
C2_OfferCounters ==
    /\ [](\A a \in Names :
            /\ 0 <= redemptions[a]
            /\ redemptions[a] <= offers[a]
            /\ offers[a] = offered[a])
    /\ [][\A a \in Names :
            /\ offers'[a] - offers[a] = offered'[a] - offered[a]
            /\ offers'[a] - offers[a] \in {0, 1}
            /\ redemptions'[a] - redemptions[a] \in {0, 1}
            /\ offers'[a] = offers[a] => redemptions'[a] = redemptions[a]]_vars

\* C2's case: a tracker offered twice, one draw a redemption and one not.
C2_Witness ==
    \E a \in Names : offered[a] = 2 /\ offers[a] = 2 /\ redemptions[a] = 1

\* C3: every make_choice call raises total by exactly 1, so after n calls on
\* a fresh pool total = n.
C3_TotalCountsCalls == total = calls

\* C4: with start = k > 0, a call made while a tracker of the active set has
\* fewer than k offers records its one trial through the start threshold, on
\* such a tracker, and a strategic rule records a trial only when no tracker
\* of the set it selects from has fewer than k offers.
C4_WarmStart ==
    [][(calls' = calls + 1 /\ start > 0) =>
        /\ (\E a \in AssetsAt(total) : offers[a] < start) =>
                /\ rule' = "start"
                /\ \E a \in AssetsAt(total) : Touched = {a} /\ offers[a] < start
        /\ rule' \in Strategic =>
                \A a \in ret' : offers[a] >= start]_vars

\* C5: with start = k > 0 and an active set that stays the n trackers of one
\* group, after n * k make_choice calls every tracker has exactly k offers
\* (get_set below total 500: n = 3).
C5_FloorReached ==
    (asset_map = GetSetMap /\ start > 0 /\ calls = 3 * start) =>
        \A a \in {"A", "B", "C"} : offers[a] = start

\* C6: an AssetSet.assets read that follows another with nothing in between
\* returns the same set and leaves the same _counts; after any read, _counts
\* is the sum of offers over the returned set, each tracker counted once.
C6_PureActiveSet ==
    [][lastOp' = "assets" =>
        /\ counts' = SumOffers(ret', offers')
        /\ lastOp = "assets" => (ret' = ret /\ counts' = counts)]_vars

\* C6's case: a read that returned a tracker with offers that two admitting
\* keys list (B of SmallMap, under 0 and (1, 3)).
C6_Witness ==
    /\ lastOp = "assets"
    /\ asset_map = SmallMap
    /\ total \in {1, 2}
    /\ "B" \in ret
    /\ offers["B"] > 0
    /\ counts > 0

ScalarOnly ==
    {a \in Trackers : \A e \in asset_map : a \in Range(e.assets) => ~e.isTuple}

\* C8: a tracker listed only under scalar keys is in the set a read returns
\* exactly when total has reached one of its keys; for {0: [X], 500: [Y]} the
\* set is {X} at every total up to 499 and {X, Y} from 500 on.
C8_ScalarAdmission ==
    lastOp \in {"assets", "assets_with_increment"} =>
        /\ \A a \in ScalarOnly :
            a \in ret <=> \E e \in asset_map : a \in Range(e.assets) /\ e.mn <= ReadAt
        /\ asset_map = TwoKeyMap =>
            ret = IF ReadAt <= 499 THEN {"A"} ELSE {"A", "D"}

\* C8's case: the read at total 500 of {0: [X], 500: [Y]}.
C8_Witness ==
    /\ asset_map = TwoKeyMap
    /\ lastOp = "assets"
    /\ total = 500
    /\ ret = {"A", "D"}

\* C9: a tracker listed only under one tuple key (lo, hi) is in the set a read
\* returns exactly when lo <= total < hi; E of get_set, under (600, 800), is
\* out at 599, in at 600 and 799, out at 800 and after.
C9_IntervalAdmission ==
    lastOp \in {"assets", "assets_with_increment"} =>
        /\ \A e \in asset_map : e.isTuple =>
            \A a \in Range(e.assets) :
                (\A x \in asset_map : a \in Range(x.assets) => x = e) =>
                    (a \in ret <=> (e.mn <= ReadAt /\ ReadAt < e.mx))
        /\ asset_map = GetSetMap =>
            /\ ReadAt \in {599, 800} => "E" \notin ret
            /\ ReadAt \in {600, 799} => "E" \in ret
            /\ ReadAt > 800 => "E" \notin ret

\* C9's case: the read at total 800 of get_set, E out again.
C9_Witness ==
    /\ asset_map = GetSetMap
    /\ lastOp = "assets"
    /\ total = 800
    /\ "E" \notin ret
    /\ "F" \in ret

\* C10: with a non-empty group under key 0, every make_choice call selects
\* from a non-empty collection and returns without raising.
C10_NeverRaises ==
    lastOp = "make_choice" => (err = "none" /\ chosen \in Trackers)

\* C11: whatever random() returns, a tracker of likelihood 1.0 redeems on
\* every offer (redemptions = offers) and a tracker of likelihood 0.0 never
\* redeems (redemptions = 0).
C11_ExtremeRates ==
    \A a \in Names :
        /\ likelihood[a] = 1000 => redemptions[a] = offers[a]
        /\ likelihood[a] = 0 => redemptions[a] = 0

\* C12: a soft_max_choice or soft_max_2_choice call, with either increment
\* flag and whatever the draw, leaves every tracker's offers and redemptions as
\* they were, and the tracker it returns is a member of the active set it
\* computed, which is the set at the value total had when the call began.
C12_ChoiceSelectsOnly ==
    [][lastOp' \in {"soft_max_choice(True)", "soft_max_choice(False)",
                    "soft_max_2_choice(True)", "soft_max_2_choice(False)"} =>
        /\ offers' = offers
        /\ redemptions' = redemptions
        /\ offered' = offered
        /\ drawn' = AssetsAt(total)
        /\ chosen' \in drawn']_vars

\* C12's case: a Softmax choice with increment made at a total where the
\* increment changes the active set, after a trial was recorded: the tracker
\* returned is of the set before the increment.
C12_Witness ==
    /\ lastOp \in {"soft_max_choice(True)", "soft_max_2_choice(True)"}
    /\ total = 1
    /\ drawn = {"A", "B"}
    /\ chosen \in drawn
    /\ \E a \in Names : offers[a] > 0

\* C13: in every make_choice call the trial goes to a tracker of the active
\* set at the value total had when the call began.
C13_TrialInEntrySet ==
    [][calls' = calls + 1 =>
        /\ chosen' \in AssetsAt(total)
        /\ offers'[chosen'] = offers[chosen'] + 1]_vars

\* C14: after a soft_max_2_choice call, direct or from make_choice, the set the
\* minimum of offers was taken over (the last active-set read) is the set the
\* choice was drawn from.
C14_MinOverDrawnSet ==
    (\/ lastOp \in {"soft_max_2_choice(True)", "soft_max_2_choice(False)"}
     \/ (lastOp = "make_choice" /\ rule = "softmax2")) =>
        ret = drawn

\* Whether conversion rate p is at most conversion rate q.
RateLeq(p, q) == p[1] * q[2] <= q[1] * p[2]

\* The conversion rate of a tracker before a step: 0 without offers.
RateOf(a) == IF offers[a] = 0 THEN <<0, 1>> ELSE <<redemptions[a], offers[a]>>

\* C15: a make_choice call in best-only mode records the trial on a tracker
\* whose conversion rate is the maximum over the active set and raises
\* best_selected by exactly 1; no tracker tied with it at the maximum has more
\* offers than the one taken.
C15_BestOnly ==
    [][(calls' = calls + 1 /\ rho = ONLY_BEST /\ start = 0) =>
        /\ best_selected' = best_selected + 1
        /\ rho_selected' = rho_selected
        /\ chosen' \in AssetsAt(total)
        /\ offers'[chosen'] = offers[chosen'] + 1
        /\ \A b \in AssetsAt(total) :
            /\ RateLeq(RateOf(b), RateOf(chosen'))
            /\ (b # chosen' /\ RateLeq(RateOf(chosen'), RateOf(b)))
                    => offers[b] <= offers[chosen']]_vars

\* C16: with a numeric rho, a make_choice call whose draw is <= rho (every
\* draw, when rho is 1.0) raises rho_selected by exactly 1, leaves
\* best_selected as it was, and records the trial on a tracker whose width is
\* the largest over the active set.
C16_WidthBranch ==
    [][(calls' = calls + 1 /\ rho = 1000 /\ start = 0) =>
        /\ rho_selected' = rho_selected + 1
        /\ best_selected' = best_selected
        /\ chosen' \in AssetsAt(total)
        /\ offers'[chosen'] = offers[chosen'] + 1
        /\ \A b \in AssetsAt(total) : Width(Cur, b) <= Width(Cur, chosen')]_vars

\* C17: a make_choice call that ends in the width branch or in select_best
\* raises exactly one of rho_selected and best_selected by 1, a call that ends
\* at the start threshold, in a Softmax mode or in random mode changes
\* neither, and with a numeric rho and start = 0 every call raises their sum
\* by 1, so the sum is the number of calls.
C17_CountersAccount ==
    [][calls' = calls + 1 =>
        LET grown == (rho_selected' + best_selected') - (rho_selected + best_selected)
        IN  /\ rho_selected' >= rho_selected
            /\ best_selected' >= best_selected
            /\ rule' \in {"width", "best"} => grown = 1
            /\ rule' \in {"start", "softmax", "softmax2", "random"} => grown = 0
            /\ (rho \in 0 .. 1000 /\ start = 0) =>
                    (grown = 1 /\ rho_selected' + best_selected' = calls')]_vars

\* C18: in best-only mode with start = 0 and scalar keys only, every trial of
\* the run goes to the tracker that received the first: after n >= 1 calls one
\* tracker has all n trials and every other tracker has none.
C18_LockIn ==
    (/\ rho = ONLY_BEST
     /\ start = 0
     /\ \A e \in asset_map : ~e.isTuple
     /\ calls >= 1) =>
        \E a \in Trackers :
            /\ offers[a] = calls
            /\ \A b \in Names \ {a} : offers[b] = 0

\* The trackers admitted late: listed under scalar keys only, none of them 0.
LateAdmitted ==
    {a \in ScalarOnly : \A e \in asset_map : a \in Range(e.assets) => e.mn > 0}

\* C19: with start = k > 0, a make_choice call made while every tracker of the
\* active set has at least k offers but one, admitted late by a scalar key,
\* which has fewer, records its trial on that tracker through the start
\* threshold; so the k calls after a tracker with 0 offers is admitted all go
\* to it, and no strategic rule records before it has k.
C19_CatchUp ==
    [][(calls' = calls + 1 /\ start > 0) =>
        \A n \in AssetsAt(total) \cap LateAdmitted :
            (/\ offers[n] < start
             /\ \A b \in AssetsAt(total) \ {n} : offers[b] >= start) =>
                /\ rule' = "start"
                /\ chosen' = n
                /\ offers'[n] = offers[n] + 1]_vars
====
